---------------------------- MODULE Spec2Model ----------------------------
(***************************************************************************)
(* Model of the transcription pipeline of api-audio-transcript             *)
(* (src/services/transcription-service.ts, OpenAI version of               *)
(* TranscriptionService).                                                  *)
(*                                                                         *)
(* One request is modelled: transcribe() with its router, the direct and   *)
(* the normalize path, and transcribeInChunks() with the duration probe,   *)
(* the chunk planner, the sequential segmenter, the batch executor built   *)
(* on Promise.all, transcribeSingle() for every chunk, cleanup and         *)
(* assembly.  Every await of the code is a step of the model; the external *)
(* collaborators (ffprobe, ffmpeg, the remote endpoint) answer             *)
(* nondeterministically.                                                   *)
(*                                                                         *)
(* Units: sizes are counted in KiB (1024 bytes), durations in ticks of     *)
(* 1/ProbeResolution second.  Texts are sequences of one-character         *)
(* strings.  An error message is modelled by the set of the keywords the   *)
(* code searches it for with String.includes, together with words that    *)
(* record where the error was raised ("remote" and the HTTP status,        *)
(* "tool", "probe", "size", "unlink", "upload").                           *)
(*                                                                         *)
(* Around the service: the POST /transcribe handler of src/server.ts       *)
(* (second version) with its upload promise, the naming of the upload      *)
(* files of concurrent requests, and transcribe of the nodejs-whisper      *)
(* version of the service with its hallucination filter.  A path is a      *)
(* record of the unique id of the request, the chunk index (-1 without     *)
(* the _chunk suffix) and the extension.                                   *)
(***************************************************************************)
EXTENDS Integers, Sequences, FiniteSets, TLC

VARIABLES
    pc,                 \* position of transcribe / transcribeInChunks
    filePath,           \* argument filePath of transcribe
    fileSize,           \* stat(filePath).size, in KiB
    useDiarize,         \* argument useDiarize of transcribe
    options,            \* argument options of transcribeWithOptions
    convertedFilePath,  \* local of transcribe: the normalized WAV, or NoPath
    finalFileSize,          \* fileBuffer.length of the final file read at line 174, 0 before
    error,              \* the error travelling to the catch of transcribe
    outcome,            \* what transcribe returned or threw
    files,              \* temporary files that exist on disk
    unlinks,            \* number of unlink calls made on each path unlinked so far
    remoteCalls,        \* payloads submitted to the remote endpoint, in order
    directAnswer,       \* history: the answer to the submission of the original file
    duration,           \* result of getAudioDuration
    actualChunkDuration,\* local of transcribeInChunks, 0 before the plan
    numChunks,          \* local of transcribeInChunks, 0 before the plan
    chunkFiles,         \* local of transcribeInChunks
    cuts,               \* the -ss and -t arguments of each ffmpeg extraction
    i,                  \* loop index of the batch loop
    task,               \* state of the transcribeSingle call of each chunk
    results,            \* local of transcribeInChunks
    chunkSource,        \* argument filePath of transcribeInChunks and its size
    whisper,            \* the call of transcribe of the nodejs-whisper version
    http,               \* the POST /transcribe handler: position, unique id, response
    tempFilePath,       \* local of the handler: the upload file, or NoPath
    upload,             \* the locals of the upload promise of the handler
    requests,           \* the upload file of each of the concurrent requests, or NoPath
    created,            \* history: every temporary file ffmpeg has written
    completed           \* history: chunk indices in the order their tasks settled

vars == <<pc, filePath, fileSize, useDiarize, options, convertedFilePath, finalFileSize, error, outcome, files,
          unlinks, remoteCalls, directAnswer, duration, actualChunkDuration, numChunks,
          chunkFiles, cuts, i, task, results, chunkSource, created, completed,
          whisper, http, tempFilePath, upload, requests>>

---------------------------------------------------------------------------
(* Bounds of the model *)

\* number of duration values per second that the probe can report
ProbeResolution == 10

\* largest chunk plan the pipeline specification (Spec) explores
MaxChunks == 4

\* largest chunk plan the planner specification (SpecPlan) explores
MaxPlanChunks == 30

\* longest repeated pattern in the outputs of nodewhisper explored
MaxPatternLen == 6

\* largest number of multipart parts (files and fields) of an upload explored
MaxParts == 2

\* number of concurrent requests whose file names are compared
MaxRequests == 2

\* largest chunk plan explored behind the HTTP handler
MaxHttpChunks == 2

---------------------------------------------------------------------------
(* Small helpers *)

Min(a, b) == IF a < b THEN a ELSE b
Max(a, b) == IF a > b THEN a ELSE b

\* Math.floor(a / b) and Math.ceil(a / b) for a >= 0, b > 0
Floor(a, b) == a \div b
Ceil(a, b) == (a + b - 1) \div b

---------------------------------------------------------------------------
(* Paths.  A path is its extension (the text after the last dot) and the   *)
(* chunk suffix inserted before it; chunk = -1 is the path without suffix. *)
(* ext = "" is a path that holds no dot followed by one or more characters *)
(* other than a dot up to its end: the two regular expressions below find  *)
(* nothing to replace in it and String.replace returns it unchanged.       *)

NoPath == [id |-> <<>>, chunk |-> -2, ext |-> "none"]

\* filePath.split(".").pop()?.toLowerCase()
FileExt(p) == p.ext

\* filePath.replace(/(\.[^.]+)$/, `_chunk${i}$1`)
ChunkFile(p, n) == IF p.ext = "" THEN p ELSE [p EXCEPT !.chunk = n]

\* filePath.replace(/\.[^.]+$/, ".wav")
WavPath(p) == IF p.ext = "" THEN p ELSE [p EXCEPT !.ext = "wav"]

supportedFormats == {"mp3", "m4a", "wav", "webm", "mpeg", "mpga"}

---------------------------------------------------------------------------
(* Chunk planner, lines 464-484 of transcribeInChunks *)

\* const MAX_FILE_SIZE_BYTES = 25 * 1024 * 1024, here in KiB
MAX_FILE_SIZE_BYTES == 25 * 1024

\* Variation of ExceedsLimit: the size is not checked
ExceedsLimitNever(size) == FALSE

\* Variation of ExceedsLimit: a file of exactly 25MB already exceeds the ceiling
ExceedsLimitInclusive(size) == size >= 25 * 1024

\* Variation of ExceedsLimit: the ceiling is 30MB
ExceedsLimit30(size) == size > 30 * 1024

\* originalSizeMB > 25, fileSizeMB > 25
ExceedsLimit(size) == size > 25 * 1024

\* Variation of safeChunkSizeBytes: the whole ceiling is the budget
safeChunkSizeBytesFull == MAX_FILE_SIZE_BYTES

\* MAX_FILE_SIZE_BYTES * 0.8
safeChunkSizeBytes == (MAX_FILE_SIZE_BYTES * 8) \div 10

optimizedWavMultiplier == 6

\* Math.floor(safeChunkSizeBytes / (fileSizeBytes / duration)), S > 0.
\* d is in ticks, so bytesPerSecond = S * ProbeResolution / d.
chunkDuration(S, d) == Floor(safeChunkSizeBytes * d, S * ProbeResolution)

\* Math.floor(chunkDuration / optimizedWavMultiplier)
optimizedChunkDuration(S, d) == Floor(chunkDuration(S, d), optimizedWavMultiplier)

\* Variation of ActualChunkDuration: the 300 second maximum is missing
ActualChunkDurationNoMax(S, d) ==
    IF S = 0 THEN 300 ELSE Max(60, optimizedChunkDuration(S, d))

\* Math.max(60, Math.min(optimizedChunkDuration, 300)), in seconds.
\* An empty file has bytesPerSecond = 0, the quotient is +Infinity and
\* Math.min(Infinity, 300) is 300.
ActualChunkDuration(S, d) ==
    IF S = 0 THEN Max(60, 300)
    ELSE Max(60, Min(optimizedChunkDuration(S, d), 300))

\* Variation of NumChunks: the quotient is rounded down
NumChunksFloor(S, d) == Floor(d, ActualChunkDuration(S, d) * ProbeResolution)

\* Math.ceil(duration / actualChunkDuration)
NumChunks(S, d) == Ceil(d, ActualChunkDuration(S, d) * ProbeResolution)

\* startTime of chunk n, in seconds
StartTime(n, cd) == n * cd

---------------------------------------------------------------------------
(* Texts *)

IsSpace(c) == c \in {" ", "\n"}

\* the positions of t that hold something other than whitespace
NonSpace(t) == {k \in 1 .. Len(t) : ~IsSpace(t[k])}

\* t from its first character that is not whitespace
TrimStart(t) ==
    IF NonSpace(t) = {} THEN <<>>
    ELSE SubSeq(t, CHOOSE k \in NonSpace(t) : \A m \in NonSpace(t) : k <= m, Len(t))

\* t up to its last character that is not whitespace
TrimEnd(t) ==
    IF NonSpace(t) = {} THEN <<>>
    ELSE SubSeq(t, 1, CHOOSE k \in NonSpace(t) : \A m \in NonSpace(t) : m <= k)

\* text.trim()
Trim(t) == TrimEnd(TrimStart(t))

\* Variation of NonEmpty: the empty texts are kept
NonEmptyAll(rs) == rs

\* results.filter((r) => r.length > 0)
NonEmpty(rs) == SelectSeq(rs, LAMBDA r : Len(r) > 0)

\* Array.prototype.join(" ")
RECURSIVE Join(_)
Join(rs) ==
    IF rs = <<>> THEN <<>>
    ELSE IF Len(rs) = 1 THEN rs[1]
    ELSE rs[1] \o <<" ">> \o Join(Tail(rs))

\* results.filter((r) => r.length > 0).join(" ")
CombinedText(rs) == Join(NonEmpty(rs))

\* t repeated n times
Repeat(t, n) == [k \in 1 .. n * Len(t) |-> t[((k - 1) % Len(t)) + 1]]

\* a bracketed timestamp such as [00:00.000 --> 00:05.000], kept as one element
Timestamp == "[ts]"

\* cleaned.replace(/\s+/g, " "): every run of whitespace becomes one space
\* (the whitespace characters of a run but the last are marked and left
\* out, the last one becomes the space)
CollapseSpaces(t) ==
    LET marked == [k \in 1 .. Len(t) |->
                     IF ~IsSpace(t[k]) THEN t[k]
                     ELSE IF k < Len(t) /\ IsSpace(t[k + 1]) THEN "more" ELSE " "]
    IN SelectSeq(marked, LAMBDA c : c # "more")

\* removeTimestamps, lines 932-946
RemoveTimestamps(t) ==
    Trim(CollapseSpaces(SelectSeq(t, LAMBDA c : c # Timestamp)))

\* a match of /(.{1,maxLen})\1{minCopies,}/ in t: a group of 1 to maxLen
\* characters followed by at least minCopies copies of itself; the dot
\* matches any character but a line terminator
RegexRepeat(t, maxLen, minCopies) ==
    \E s \in 1 .. Len(t), L \in 1 .. maxLen :
       /\ s + (minCopies + 1) * L - 1 <= Len(t)
       /\ \A j \in s .. s + L - 1 : t[j] # "\n"
       /\ \A c \in 1 .. minCopies :
            SubSeq(t, s + c * L, s + (c + 1) * L - 1) = SubSeq(t, s, s + L - 1)

\* /(.)\1{30,}/
charRepetition(t) == RegexRepeat(t, 1, 30)

\* Variation of patternRepetition: 16 copies must follow the group
patternRepetition17(t) == RegexRepeat(t, 5, 16)

\* /(.{1,5})\1{15,}/
patternRepetition(t) == RegexRepeat(t, 5, 15)

\* isLikelyHallucination, lines 951-967
isLikelyHallucination(t) == charRepetition(t) \/ patternRepetition(t)

---------------------------------------------------------------------------
(* Answers of the external collaborators *)

\* file extensions of the uploaded file: supported, wav, not supported
Exts == {"mp3", "wav", "ogg"}

\* sizes of the uploaded file, in KiB
Sizes == {1000, 25 * 1024, 30000}

\* sizes of a normalized WAV and of a chunk read by transcribeSingle, in KiB
ConvertedSizes == {20000, 25 * 1024 + 1}

\* texts the remote endpoint returns
RemoteTexts == { <<" ">>, <<" ", "a">>, <<"b">>, Repeat(<<"h">>, 16) }

\* file sizes of the uploads explored, in KiB
HttpSizes == {1000, 30000}

\* filenames of the file parts explored
Filenames == {"a.ogg", "a", ""}

\* the repeated patterns of the outputs of nodewhisper explored
Patterns == UNION { [1 .. n -> {"a", " "}] : n \in 1 .. MaxPatternLen }

\* how many times the pattern is repeated; the long repetitions are those
\* of one or two characters
Repeats(pat) == {1, 15, 16, 18} \cup (IF Len(pat) <= 2 THEN {30, 31, 35} ELSE {})

\* the outputs of nodewhisper explored: a repetition, something before it
\* (a timestamp, a line) and something after it
WhisperOutputs ==
    UNION { { pre \o Repeat(pat, n) \o post :
                pre \in { <<>>, <<Timestamp, " ">>, <<"c", "\n">> },
                post \in { <<>>, <<"c">> }, n \in Repeats(pat) } :
            pat \in Patterns }

\* errors of the remote endpoint, by the keywords the code looks for in the
\* message: "API key", one of file/corrupted/unsupported ("content"), "rate
\* limit".  "remote" and the HTTP status of the answer are not keywords of
\* the code: they record where and why the error was raised.
RemoteErrors ==
    { {"remote", "500"}, {"remote", "401", "API key"}, {"remote", "400", "content"},
      {"remote", "429", "rate limit"} }

\* errors of ffmpeg: the message of exec may or may not hold one of the
\* content keywords.  "tool" records where the error was raised.
ToolErrors == { {"tool"} \cup k : k \in { {}, {"content"} } }

\* what ffprobe does: the command fails, or prints something parseFloat
\* turns into NaN, Infinity or a number (in ticks)
ProbeFailures ==
    { [k |-> "fail", v |-> 0], [k |-> "NaN", v |-> 0], [k |-> "Infinity", v |-> 0] }

ProbeOutputs ==
    ProbeFailures
    \cup { [k |-> "num", v |-> d] : d \in {-10, 0, 1, 300, 601, 1500, 2400, 3000, 3001} }

\* the wider inputs of the planner specification
PlanSizes == {0, 1, 1000, 20000, 25 * 1024, 25 * 1024 + 1, 30000, 100 * 1024}

PlanProbeOutputs ==
    ProbeFailures
    \cup { [k |-> "num", v |-> d] :
             d \in {-10, 0, 1, 5, 599, 600, 601, 1000, 2999, 3000, 3001, 6000,
                    9000, 12001, 18000, 36000} }

\* getAudioDuration: 0 when the command fails or the output is NaN
GetAudioDuration(out) ==
    IF out.k \in {"fail", "NaN"} THEN [k |-> "num", v |-> 0] ELSE out

\* Variation of InvalidDuration: only a non-finite duration is refused
InvalidDurationFiniteOnly(dur) == dur.k # "num"

\* !duration || duration <= 0 || !isFinite(duration)
InvalidDuration(dur) == dur.k # "num" \/ dur.v <= 0

---------------------------------------------------------------------------
(* Error messages *)

\* `Failed to convert audio file to WAV format: ${error.message}`
ConvertError(e) == e \cup {"content"}

\* "Cannot determine audio duration. The file may be corrupted or in an
\* unsupported format."
DurationError == {"probe", "content"}

\* `Chunk file size (...MB) still exceeds 25MB limit`
ChunkSizeError == {"size", "content"}

\* "ENOENT: no such file or directory, unlink '...'"
UnlinkError == {"unlink", "content"}

\* "No audio file found in request"; the other errors of the upload ("Request
\* body is empty", those of the write stream and of busboy) are {"upload"}
NoAudioFileError == {"upload", "no audio file", "content"}

\* Variation of ChunksError: the message of the cause is not repeated
ChunksErrorOpaque(e) == e \ {"API key", "content", "rate limit"}

\* `Failed to transcribe in chunks: ${error.message}`
ChunksError(e) == e

\* Variation of IsContentError: every failure counts as a content failure
IsContentErrorAny(e) == TRUE

\* error.message includes "corrupted", "unsupported" or "file"
IsContentError(e) == "content" \in e

\* the catch of transcribe, lines 260-289
Classify(e) ==
    IF "API key" \in e THEN "auth"
    ELSE IF IsContentError(e) THEN "format"
    ELSE IF "rate limit" \in e THEN "rate"
    ELSE "failed"

---------------------------------------------------------------------------
(* State shared by the actions *)

NoError == {"none"}
NoOutcome == [kind |-> "none", text |-> <<>>, class |-> "none"]
Returned(t) == [kind |-> "ok", text |-> t, class |-> "none"]
Thrown(c) == [kind |-> "error", text |-> <<>>, class |-> c]

IdleTask == [st |-> "idle", conv |-> NoPath, text |-> <<>>]

\* transcribe of the nodejs-whisper version before nodewhisper has answered
IdleWhisper == [pc |-> "nodewhisper", output |-> <<>>, text |-> <<>>, returned |-> <<>>]

\* number of unlink calls made on path p so far, and how many of them failed
UnlinkCount(p) == IF p \in DOMAIN unlinks THEN unlinks[p].calls ELSE 0
UnlinkFailed(p) == IF p \in DOMAIN unlinks THEN unlinks[p].failed ELSE 0

\* unlink(p) for every p of ps: the call is counted, the file is gone
\* afterwards; the call fails when the file is not there
Unlink(ps) ==
    /\ files' = files \ ps
    /\ unlinks' = [p \in DOMAIN unlinks \cup ps |->
                     [calls |-> UnlinkCount(p) + (IF p \in ps THEN 1 ELSE 0),
                      failed |-> UnlinkFailed(p)
                                 + (IF p \in ps /\ p \notin files THEN 1 ELSE 0)]]

\* one of the unlink calls on ps rejects
UnlinkRejects(ps) == \E p \in ps : p \notin files

\* Variation of Escapes: the error of unlink is rethrown
EscapesRethrown(rejected) == rejected

\* .catch(() => {}) and try { await unlink(...) } catch { log }: whether the
\* error of a rejected unlink leaves the handler that was put on it
Escapes(rejected) == FALSE

\* safeDeleteFile, src/utils/file-utils.ts lines 27-34: the files afterwards
\* and whether the call raised
safeDeleteFile(p) == [files |-> files \ {p}, raised |-> Escapes(UnlinkRejects({p}))]

\* the paths of: if (convertedFilePath) await unlink(convertedFilePath)
Converted(c) == IF c = NoPath THEN {} ELSE {c}

\* if (convertedFilePath) await unlink(convertedFilePath).catch(...)
UnlinkConverted(c) == Unlink(Converted(c))

\* ffmpeg ... "${outputPath}" -y has written its output
Write(p) == files' = files \cup {p} /\ created' = created \cup {p}

\* useDiarize ? "gpt-4o-transcribe-diarize" : "gpt-4o-mini-transcribe", lines
\* 67-69, 423-425 and 577-579; useDiarize is passed on unchanged from
\* transcribe to transcribeInChunks and to transcribeSingle
ModelName(diarize) ==
    IF diarize THEN "gpt-4o-transcribe-diarize" ELSE "gpt-4o-mini-transcribe"

\* this.openai.audio.transcriptions.create({ file, model, ... })
Submit(p, size) ==
    remoteCalls' = Append(remoteCalls,
                          [path |-> p, size |-> size, model |-> ModelName(useDiarize)])

\* const maxConcurrent = 2
maxConcurrent == 2

\* Variation of Batch: the slice takes every remaining chunk
BatchRest(from) == { n \in 0 .. Len(chunkFiles) - 1 : from <= n }

\* chunkFiles.slice(i, i + maxConcurrent), as 0-based chunk indices
Batch(from) == { n \in 0 .. Len(chunkFiles) - 1 : from <= n /\ n < from + maxConcurrent }

\* remote calls that were issued and have not answered yet
Outstanding ==
    (IF pc \in {"direct", "normCall"} THEN 1 ELSE 0)
    + Cardinality({ n \in DOMAIN task : task[n].st = "remote" })

\* the handler when transcribe is called without it (the diagnostic script)
NoHttp == [pc |-> "none", uniqueId |-> <<>>, status |-> 0, body |-> "none",
           error |-> NoError, generated |-> FALSE, generation |-> "not called",
           diarizeParam |-> "unread",
           model |-> "none", diarize |-> FALSE]

\* the locals of the upload promise, lines 240-246, with the state of the
\* streams: whether the body is piped into busboy, how many parts busboy has
\* delivered, whether it still parses, how many write streams are open
NoUpload == [piped |-> FALSE, parts |-> 0, busboy |-> "parsing", writers |-> 0,
             fileFound |-> FALSE, filename |-> "undefined", prompt |-> "undefined",
             fileWriteFinished |-> FALSE, busboyFinished |-> FALSE, resolved |-> FALSE,
             settled |-> "pending"]

\* transcribe takes no options
NoOptions == [response_format |-> "undefined"]

\* the state before the request: the service at position at, the handler as h
InitRequest(sizes, paths, at, h) ==
    /\ pc = at
    /\ filePath \in paths
    /\ fileSize \in sizes
    /\ useDiarize = FALSE
    /\ convertedFilePath = NoPath
    /\ finalFileSize = 0
    /\ error = NoError
    /\ outcome = NoOutcome
    /\ files = {}
    /\ unlinks = [p \in {} |-> [calls |-> 0, failed |-> 0]]
    /\ remoteCalls = <<>>
    /\ directAnswer = NoError
    /\ duration = [k |-> "none", v |-> 0]
    /\ actualChunkDuration = 0
    /\ numChunks = 0
    /\ chunkFiles = <<>>
    /\ cuts = <<>>
    /\ i = 0
    /\ task = [n \in {} |-> IdleTask]
    /\ results = <<>>
    /\ chunkSource = [path |-> NoPath, size |-> 0]
    /\ created = {}
    /\ completed = <<>>
    /\ whisper = IdleWhisper
    /\ http = h
    /\ tempFilePath = NoPath
    /\ upload = NoUpload
    /\ requests = [r \in 1 .. MaxRequests |-> NoPath]

\* transcribe called on a file of one of the sizes
InitWith(sizes) ==
    /\ InitRequest(sizes, [id : {<<0, 0>>}, chunk : {-1}, ext : Exts], "start", NoHttp)
    /\ options = NoOptions

Init == InitWith(Sizes)

outside == <<whisper, http, tempFilePath, upload, requests>>
input == <<filePath, fileSize, useDiarize, options>>
disk == <<files, unlinks, created>>
plan == <<duration, actualChunkDuration, numChunks>>
segments == <<chunkFiles, cuts>>
executor == <<i, task, results, completed>>
chunkVars == <<chunkSource, plan, segments, executor>>
service == <<pc, convertedFilePath, finalFileSize, error, outcome, remoteCalls, directAnswer,
             chunkVars>>

---------------------------------------------------------------------------
(* transcribe, lines 58-291 *)

\* lines 165-171: convert unless the file is a wav, then read the final file
StartNormalize ==
    pc' = IF FileExt(filePath) # "wav" THEN "convert" ELSE "read"

\* return await this.transcribeInChunks(filePath, ...), lines 104 and 189
EnterChunks(source) == pc' = "probe" /\ chunkSource' = source

\* Variation of ChunkInput: the normalized file is handed to transcribeInChunks
ChunkInputFinal(orig, origSize, final, finalSize) == [path |-> final, size |-> finalSize]

\* the file handed to transcribeInChunks at line 189: the original file
ChunkInput(orig, origSize, final, finalSize) == [path |-> orig, size |-> origSize]

\* lines 84-135: stat, the size router, the first submission
Route ==
    /\ pc = "start"
    /\ IF ExceedsLimit(fileSize)
         THEN /\ EnterChunks([path |-> filePath, size |-> fileSize])
              /\ UNCHANGED remoteCalls
         ELSE IF FileExt(filePath) \in supportedFormats
           THEN pc' = "direct" /\ Submit(filePath, fileSize) /\ UNCHANGED chunkSource
           ELSE StartNormalize /\ UNCHANGED <<remoteCalls, chunkSource>>
    /\ UNCHANGED <<outside, input, directAnswer, finalFileSize, convertedFilePath, error, outcome, disk, plan, segments,
                   executor>>

\* lines 130-162: the answer to the submission of the original file
DirectReturn ==
    /\ pc = "direct"
    /\ \/ \E t \in RemoteTexts :
            /\ outcome' = Returned(Trim(t))
            /\ pc' = "done"
            /\ directAnswer' = {"text"}
            /\ UNCHANGED error
       \/ \E e \in RemoteErrors :
            /\ IF IsContentError(e)
                 THEN StartNormalize /\ UNCHANGED error
                 ELSE pc' = "catch" /\ error' = e
            /\ directAnswer' = e
            /\ UNCHANGED outcome
    /\ UNCHANGED <<outside, input, finalFileSize, convertedFilePath, disk, remoteCalls, chunkVars>>

\* lines 168-169 and convertToWav: the answer of ffmpeg
ConvertReturn ==
    /\ pc = "convert"
    /\ \/ /\ convertedFilePath' = WavPath(filePath)
          /\ Write(WavPath(filePath))
          /\ pc' = "read"
          /\ UNCHANGED error
       \/ \E e \in ToolErrors :
            /\ error' = ConvertError(e)
            /\ pc' = "catch"
            /\ UNCHANGED <<convertedFilePath, files, created>>
    /\ UNCHANGED <<outside, input, directAnswer, finalFileSize, outcome, unlinks, remoteCalls, chunkVars>>

\* lines 174-214: read the final file, check its size, submit it
ReadFinal ==
    /\ pc = "read"
    /\ LET finalFilePath == IF convertedFilePath = NoPath THEN filePath
                            ELSE convertedFilePath IN
       \E size \in (IF convertedFilePath = NoPath THEN {fileSize} ELSE ConvertedSizes) :
         /\ finalFileSize' = size
         /\ IF ExceedsLimit(size)
              THEN /\ UnlinkConverted(convertedFilePath)
                   /\ IF Escapes(UnlinkRejects(Converted(convertedFilePath)))
                        THEN pc' = "catch" /\ error' = UnlinkError /\ UNCHANGED chunkSource
                        ELSE /\ EnterChunks(ChunkInput(filePath, fileSize, finalFilePath, size))
                             /\ UNCHANGED error
                   /\ UNCHANGED remoteCalls
              ELSE /\ Submit(finalFilePath, size)
                   /\ pc' = "normCall"
                   /\ UNCHANGED <<files, unlinks, chunkSource, error>>
    /\ UNCHANGED <<outside, input, directAnswer, convertedFilePath, outcome, created, plan, segments,
                   executor>>

\* lines 209-237: the answer to the submission of the final file
NormReturn ==
    /\ pc = "normCall"
    /\ \/ \E t \in RemoteTexts :
            /\ UnlinkConverted(convertedFilePath)
            /\ IF Escapes(UnlinkRejects(Converted(convertedFilePath)))
                 THEN pc' = "catch" /\ error' = UnlinkError /\ UNCHANGED outcome
                 ELSE outcome' = Returned(Trim(t)) /\ pc' = "done" /\ UNCHANGED error
       \/ \E e \in RemoteErrors :
            /\ error' = e
            /\ pc' = "catch"
            /\ UNCHANGED <<outcome, files, unlinks>>
    /\ UNCHANGED <<outside, input, directAnswer, finalFileSize, convertedFilePath, created, remoteCalls,
                   chunkVars>>

\* lines 238-290: the catch of transcribe
Catch ==
    /\ pc = "catch"
    /\ UnlinkConverted(convertedFilePath)
    /\ IF Escapes(UnlinkRejects(Converted(convertedFilePath)))
         THEN error' = UnlinkError /\ outcome' = Thrown("unlink")
         ELSE outcome' = Thrown(Classify(error)) /\ UNCHANGED error
    /\ pc' = "failed"
    /\ UNCHANGED <<outside, input, directAnswer, finalFileSize, convertedFilePath, created, remoteCalls,
                   chunkVars>>

---------------------------------------------------------------------------
(* transcribeInChunks, lines 417-566 *)

\* lines 552-565: the catch of transcribeInChunks rethrows into transcribe,
\* which called it inside its own try
ChunksThrow(e) == pc' = "catch" /\ error' = ChunksError(e)

\* Variation of SegmentLoop: the loop is left after the first extraction
SegmentLoopFirst(done, n) == IF done < 1 THEN "segment" ELSE "loop"

\* the test of the segmentation loop, for (let i = 0; i < numChunks; i++)
SegmentLoop(done, n) == IF done < n THEN "segment" ELSE "loop"

\* lines 437-484: probe the duration, validate it, stat, plan the chunks.
\* outs are the answers of ffprobe explored, limit the largest plan explored.
ProbeFrom(outs, limit) ==
    /\ pc = "probe"
    /\ \E out \in outs :
         LET dur == GetAudioDuration(out) IN
         /\ duration' = dur
         /\ IF InvalidDuration(dur)
              THEN /\ ChunksThrow(DurationError)
                   /\ UNCHANGED <<actualChunkDuration, numChunks, task>>
              ELSE /\ NumChunks(chunkSource.size, dur.v) <= limit
                   /\ actualChunkDuration' = ActualChunkDuration(chunkSource.size, dur.v)
                   /\ numChunks' = NumChunks(chunkSource.size, dur.v)
                   /\ task' = [n \in 0 .. numChunks' - 1 |-> IdleTask]
                   /\ pc' = SegmentLoop(0, numChunks')
                   /\ UNCHANGED error
    /\ UNCHANGED <<outside, input, directAnswer, finalFileSize, convertedFilePath, outcome, disk, remoteCalls, chunkSource,
                   segments, i, results, completed>>

Probe == ProbeFrom(ProbeOutputs, MaxChunks)

\* lines 496-504: name the next chunk file and start its extraction
SegmentStart ==
    /\ pc = "segment"
    /\ chunkFiles' = Append(chunkFiles, ChunkFile(chunkSource.path, Len(chunkFiles)))
    /\ cuts' = Append(cuts, [ss |-> StartTime(Len(chunkFiles), actualChunkDuration),
                             t |-> actualChunkDuration])
    /\ pc' = "ffmpeg"
    /\ UNCHANGED <<outside, input, directAnswer, finalFileSize, convertedFilePath, error, outcome, disk, remoteCalls,
                   chunkSource, plan, executor>>

\* Variation of SegmentReturn: a failed extraction is skipped and the loop
\* goes on with the next chunk
SegmentReturnSkip ==
    /\ pc = "ffmpeg"
    /\ \/ /\ Write(chunkFiles[Len(chunkFiles)])
          /\ pc' = SegmentLoop(Len(chunkFiles), numChunks)
          /\ UNCHANGED error
       \/ \E e \in ToolErrors :
            /\ pc' = SegmentLoop(Len(chunkFiles), numChunks)
            /\ UNCHANGED <<error, files, created>>
    /\ UNCHANGED <<outside, input, directAnswer, finalFileSize, convertedFilePath, outcome, unlinks, remoteCalls, chunkVars>>

\* lines 502-505: the answer of ffmpeg to the extraction
SegmentReturn ==
    /\ pc = "ffmpeg"
    /\ \/ /\ Write(chunkFiles[Len(chunkFiles)])
          /\ pc' = SegmentLoop(Len(chunkFiles), numChunks)
          /\ UNCHANGED error
       \/ \E e \in ToolErrors :
            /\ ChunksThrow(e)
            /\ UNCHANGED <<files, created>>
    /\ UNCHANGED <<outside, input, directAnswer, finalFileSize, convertedFilePath, outcome, unlinks, remoteCalls, chunkVars>>

\* lines 595-602 of transcribeSingle, up to its first await
StartedTask(p) ==
    [st |-> IF FileExt(p) # "wav" THEN "convert" ELSE "read",
     conv |-> NoPath, text |-> <<>>]

\* lines 516-534: slice the next batch and start transcribeSingle on each
StartBatch ==
    /\ pc = "loop"
    /\ i < Len(chunkFiles)
    /\ task' = [n \in DOMAIN task |->
                  IF n \in Batch(i) THEN StartedTask(chunkFiles[n + 1]) ELSE task[n]]
    /\ pc' = "batch"
    /\ UNCHANGED <<outside, input, directAnswer, finalFileSize, convertedFilePath, error, outcome, disk, remoteCalls,
                   chunkSource, plan, segments, i, results, completed>>

\* lines 538-551: delete the chunk files, combine the results, return
Cleanup ==
    /\ pc = "loop"
    /\ ~(i < Len(chunkFiles))
    /\ LET all == { chunkFiles[k] : k \in 1 .. Len(chunkFiles) } IN
       /\ Unlink(all)
       /\ IF Escapes(UnlinkRejects(all))
            THEN ChunksThrow(UnlinkError) /\ UNCHANGED outcome
            ELSE outcome' = Returned(CombinedText(results)) /\ pc' = "done" /\ UNCHANGED error
    /\ UNCHANGED <<outside, input, directAnswer, finalFileSize, convertedFilePath, created, remoteCalls,
                   chunkVars>>

\* the values of the tasks of a batch, in the order of the batch
BatchResults(tk, from) ==
    [k \in 1 .. Cardinality(Batch(from)) |-> tk[from + k - 1].text]

\* Variation of TaskRejected: a rejected chunk counts as an empty text and the
\* batch goes on (best-effort aggregation, as with Promise.allSettled)
TaskRejectedBestEffort(n, e) ==
    LET done == [task EXCEPT ![n].st = "rejected"] IN
    /\ task' = done
    /\ completed' = Append(completed, n)
    /\ IF pc = "batch" /\ \A m \in Batch(i) : done[m].st \in {"fulfilled", "rejected"}
         THEN /\ results' = results \o BatchResults(done, i)
              /\ i' = i + maxConcurrent
              /\ pc' = "loop"
         ELSE UNCHANGED <<results, i, pc>>
    /\ UNCHANGED error

\* Promise.all rejects with the first rejection: transcribeInChunks, if it
\* still waits for this batch, leaves the loop through its catch
TaskRejected(n, e) ==
    /\ task' = [task EXCEPT ![n].st = "rejected"]
    /\ completed' = Append(completed, n)
    /\ IF pc = "batch" THEN ChunksThrow(e) ELSE UNCHANGED <<pc, error>>
    /\ UNCHANGED <<results, i>>

\* Variation of TaskFulfilled: the loop goes on as soon as one task of the
\* batch is fulfilled (a free slot is refilled by the next batch)
TaskFulfilledAny(n, t) ==
    LET done == [task EXCEPT ![n].st = "fulfilled", ![n].text = t] IN
    /\ task' = done
    /\ completed' = Append(completed, n)
    /\ IF pc = "batch" /\ \E m \in Batch(i) : done[m].st = "fulfilled"
         THEN /\ results' = results \o BatchResults(done, i)
              /\ i' = i + maxConcurrent
              /\ pc' = "loop"
         ELSE UNCHANGED <<results, i, pc>>
    /\ UNCHANGED error

\* Variation of TaskFulfilled: every task pushes its text when it completes
TaskFulfilledPush(n, t) ==
    LET done == [task EXCEPT ![n].st = "fulfilled", ![n].text = t] IN
    /\ task' = done
    /\ completed' = Append(completed, n)
    /\ results' = Append(results, t)
    /\ IF pc = "batch" /\ \A m \in Batch(i) : done[m].st = "fulfilled"
         THEN i' = i + maxConcurrent /\ pc' = "loop"
         ELSE UNCHANGED <<i, pc>>
    /\ UNCHANGED error

\* Promise.all fulfils when the last task of the batch has, with the values
\* in the order of the batch: lines 530-536
TaskFulfilled(n, t) ==
    LET done == [task EXCEPT ![n].st = "fulfilled", ![n].text = t] IN
    /\ task' = done
    /\ completed' = Append(completed, n)
    /\ IF pc = "batch" /\ \A m \in Batch(i) : done[m].st = "fulfilled"
         THEN /\ results' = results \o BatchResults(done, i)
              /\ i' = i + maxConcurrent
              /\ pc' = "loop"
         ELSE UNCHANGED <<results, i, pc>>
    /\ UNCHANGED error

---------------------------------------------------------------------------
(* transcribeSingle, lines 571-658, one call per chunk *)

\* lines 597-598 and convertToWav: the answer of ffmpeg for chunk n
TaskConvertReturn(n) ==
    /\ task[n].st = "convert"
    /\ \/ /\ Write(WavPath(chunkFiles[n + 1]))
          /\ task' = [task EXCEPT ![n].st = "read",
                                  ![n].conv = WavPath(chunkFiles[n + 1])]
          /\ UNCHANGED <<pc, error, results, i, completed>>
       \/ \E e \in ToolErrors :
            /\ TaskRejected(n, ConvertError(e))
            /\ UNCHANGED <<files, created>>
    /\ UNCHANGED <<outside, input, directAnswer, finalFileSize, convertedFilePath, outcome, unlinks, remoteCalls,
                   chunkSource, plan, segments>>

\* lines 602-626: read the final file of chunk n, check its size, submit it
TaskRead(n) ==
    /\ task[n].st = "read"
    /\ \E size \in ConvertedSizes :
         IF ExceedsLimit(size)
           THEN /\ UnlinkConverted(task[n].conv)
                /\ TaskRejected(n, IF Escapes(UnlinkRejects(Converted(task[n].conv)))
                                     THEN UnlinkError ELSE ChunkSizeError)
                /\ UNCHANGED remoteCalls
           ELSE /\ Submit(IF task[n].conv = NoPath THEN chunkFiles[n + 1]
                          ELSE task[n].conv, size)
                /\ task' = [task EXCEPT ![n].st = "remote"]
                /\ UNCHANGED <<pc, error, results, i, completed, files, unlinks>>
    /\ UNCHANGED <<outside, input, directAnswer, finalFileSize, convertedFilePath, outcome, created,
                   chunkSource, plan, segments>>

\* lines 621-657: the answer of the remote endpoint for chunk n
TaskRemoteReturn(n) ==
    /\ task[n].st = "remote"
    /\ UnlinkConverted(task[n].conv)
    /\ \/ \E t \in RemoteTexts :
            IF Escapes(UnlinkRejects(Converted(task[n].conv)))
              THEN TaskRejected(n, UnlinkError)
              ELSE TaskFulfilled(n, Trim(t))
       \/ \E e \in RemoteErrors : TaskRejected(n, e)
    /\ UNCHANGED <<outside, input, directAnswer, finalFileSize, convertedFilePath, outcome, created,
                   remoteCalls, chunkSource, plan, segments>>

---------------------------------------------------------------------------
(* transcribeWithOptions, lines 300-393 *)

\* the values of options.response_format; "undefined" is the call without it
ResponseFormats == {"undefined", "text", "json", "verbose_json", "srt", "vtt"}

\* lines 335-357, after the conversion if there was one: read the final file
\* and submit it; the size is not checked
OptionsSubmit(p) ==
    /\ \E size \in (IF p = filePath THEN {fileSize} ELSE ConvertedSizes) : Submit(p, size)
    /\ pc' = "optionsCall"

\* lines 325-334: convert unless the file is a wav
OptionsStart ==
    /\ pc = "options"
    /\ IF FileExt(filePath) # "wav"
         THEN pc' = "optionsConvert" /\ UNCHANGED remoteCalls
         ELSE OptionsSubmit(filePath)
    /\ UNCHANGED <<outside, input, directAnswer, finalFileSize, convertedFilePath, error, outcome,
                   disk, chunkVars>>

\* line 332 and convertToWav: the answer of ffmpeg
OptionsConvertReturn ==
    /\ pc = "optionsConvert"
    /\ \/ /\ convertedFilePath' = WavPath(filePath)
          /\ Write(WavPath(filePath))
          /\ OptionsSubmit(WavPath(filePath))
          /\ UNCHANGED error
       \/ \E e \in ToolErrors :
            /\ error' = ConvertError(e)
            /\ pc' = "optionsCatch"
            /\ UNCHANGED <<convertedFilePath, files, created, remoteCalls>>
    /\ UNCHANGED <<outside, input, directAnswer, finalFileSize, outcome, unlinks, chunkVars>>

\* options?.response_format === "json" || ... === "verbose_json", lines
\* 355-360: the transcription object is returned at once
ReturnsObject(response_format) == response_format \in {"json", "verbose_json"}

\* lines 347-378: the answer of the remote endpoint
OptionsReturn ==
    /\ pc = "optionsCall"
    /\ \/ \E t \in RemoteTexts :
            /\ outcome' = Returned(t)
            /\ pc' = "done"
            /\ IF ReturnsObject(options.response_format)
                 THEN UNCHANGED <<files, unlinks>>
                 ELSE UnlinkConverted(convertedFilePath)
            /\ UNCHANGED error
       \/ \E e \in RemoteErrors :
            /\ error' = e
            /\ pc' = "optionsCatch"
            /\ UNCHANGED <<outcome, files, unlinks>>
    /\ UNCHANGED <<outside, input, directAnswer, finalFileSize, convertedFilePath, created,
                   remoteCalls, chunkVars>>

\* lines 379-406: the catch of transcribeWithOptions
OptionsCatch ==
    /\ pc = "optionsCatch"
    /\ UnlinkConverted(convertedFilePath)
    /\ outcome' = Thrown("failed")
    /\ pc' = "failed"
    /\ UNCHANGED <<outside, input, directAnswer, finalFileSize, convertedFilePath, error, created,
                   remoteCalls, chunkVars>>

---------------------------------------------------------------------------
(* transcribe of the nodejs-whisper version, lines 877-927 *)

\* lines 897-920: nodewhisper answered; trim, remove the timestamps, return
\* the empty text for an empty or a hallucinated text
WhisperReturn ==
    /\ whisper.pc = "nodewhisper"
    /\ \E output \in WhisperOutputs :
         LET text == RemoveTimestamps(Trim(output)) IN
         whisper' = [pc |-> "returned", output |-> output, text |-> text,
                     returned |-> IF text = <<>> THEN <<>>
                                  ELSE IF isLikelyHallucination(text) THEN <<>>
                                  ELSE text]
    /\ UNCHANGED <<http, tempFilePath, upload, requests, input, disk, service>>

\* lines 921-926: nodewhisper failed, transcribe rethrows
WhisperThrow ==
    /\ whisper.pc = "nodewhisper"
    /\ whisper' = [whisper EXCEPT !.pc = "thrown"]
    /\ UNCHANGED <<http, tempFilePath, upload, requests, input, disk, service>>

---------------------------------------------------------------------------
(* POST /transcribe, src/server.ts lines 202-495 *)

\* getFileExtension, lines 152-155: the part after the last dot, or null
getFileExtension(filename) ==
    IF filename = "a.ogg" THEN "ogg" ELSE "null"

\* getFileExtension(filename) || "mp3"
UploadExt(filename) ==
    IF getFileExtension(filename) = "null" THEN "mp3" ELSE getFileExtension(filename)

\* join(tempDir, `transcribe-${uniqueId}.${ext}`)
TempFile(uniqueId, ext) == [id |-> uniqueId, chunk |-> -1, ext |-> ext]

\* reject(err), and the handler, which awaits the promise, enters its catch;
\* a promise that is already settled ignores the call.  u is upload after
\* the assignments of the event.
Reject(e, u) ==
    IF u.settled = "pending"
      THEN /\ upload' = [u EXCEPT !.settled = "rejected"]
           /\ http' = [http EXCEPT !.pc = "catch", !.error = e]
      ELSE upload' = u /\ UNCHANGED http

\* the values of the query parameter diarize explored; "undefined" is the
\* request without the parameter
DiarizeParams == {"true", "1", "yes", "TRUE", "undefined"}

\* Variation of UseDiarize: only the value true switches diarization on
UseDiarizeTrueOnly(diarizeParam) == diarizeParam = "true"

\* diarizeParam === "true" || diarizeParam === "1" || diarizeParam === "yes"
UseDiarize(diarizeParam) == diarizeParam \in {"true", "1", "yes"}

\* the test of tryResolve, lines 249-256
ReadyToResolve(u, tfp) ==
    ~u.resolved /\ u.fileWriteFinished /\ u.busboyFinished /\ u.fileFound
    /\ u.filename \notin {"undefined", ""} /\ tfp # NoPath

\* tryResolve, lines 247-258, and the handler going on after the await: lines
\* 346-364, up to the call of transcribe on the upload file, with the read
\* of the query parameter diarize
TryResolve(u, tfp, diarizeParam) ==
    IF ReadyToResolve(u, tfp)
      THEN IF u.settled = "pending"
             THEN /\ upload' = [u EXCEPT !.resolved = TRUE, !.settled = "resolved"]
                  /\ http' = [http EXCEPT !.pc = "transcribe",
                                           !.diarizeParam = diarizeParam]
                  /\ pc' = "start"
                  /\ filePath' = tfp
                  /\ useDiarize' = UseDiarize(diarizeParam)
             ELSE /\ upload' = [u EXCEPT !.resolved = TRUE]
                  /\ UNCHANGED <<http, pc, filePath, useDiarize>>
      ELSE upload' = u /\ UNCHANGED <<http, pc, filePath, useDiarize>>

\* lines 211-238 and 329-335: the Content-Type check, the unique id (the
\* request arrives at time 1 and draws "r1"), the body piped into busboy
Request ==
    /\ http.pc = "request"
    /\ \E contentType \in {"multipart/form-data", "application/json", "none"} :
         IF contentType # "multipart/form-data"
           THEN /\ http' = [http EXCEPT !.pc = "responded", !.status = 400,
                                        !.body = "contentType"]
                /\ UNCHANGED upload
           ELSE \E now \in {1}, rnd \in {"r1"}, body \in BOOLEAN :
                  IF body
                    THEN /\ http' = [http EXCEPT !.pc = "upload", !.uniqueId = <<now, rnd>>]
                         /\ upload' = [upload EXCEPT !.piped = TRUE]
                    ELSE /\ http' = [http EXCEPT !.pc = "catch", !.uniqueId = <<now, rnd>>,
                                                 !.error = {"upload"}]
                         /\ upload' = [upload EXCEPT !.settled = "rejected"]
    /\ UNCHANGED <<whisper, requests, tempFilePath, input, disk, service>>

\* bb.on("file"), lines 260-304
FileField ==
    /\ upload.piped /\ upload.busboy = "parsing" /\ upload.parts < MaxParts
    /\ \E name \in {"audio", "other"}, filename \in Filenames :
         LET u == [upload EXCEPT !.parts = @ + 1, !.filename = filename] IN
         IF name # "audio"
           THEN upload' = u /\ UNCHANGED <<tempFilePath, files, created>>
           ELSE LET tempFile == TempFile(http.uniqueId, UploadExt(filename)) IN
                /\ upload' = [u EXCEPT !.fileFound = TRUE, !.writers = @ + 1]
                /\ tempFilePath' = tempFile
                /\ Write(tempFile)
    /\ UNCHANGED <<whisper, requests, http, input, unlinks, service>>

\* bb.on("field"), lines 306-316
Field ==
    /\ upload.piped /\ upload.busboy = "parsing" /\ upload.parts < MaxParts
    /\ \E name \in {"prompt", "other"}, value \in {" ", "p"} :
         upload' = [upload EXCEPT !.parts = @ + 1,
                                  !.prompt = IF name = "prompt" THEN value ELSE @]
    /\ UNCHANGED <<whisper, requests, http, tempFilePath, input, disk, service>>

\* writeStream.on("finish"), lines 284-291
WriteFinish ==
    /\ upload.writers > 0
    /\ \E diarizeParam \in DiarizeParams :
         TryResolve([upload EXCEPT !.writers = @ - 1, !.fileWriteFinished = TRUE],
                    tempFilePath, diarizeParam)
    /\ UNCHANGED <<whisper, requests, tempFilePath, fileSize, options, disk, convertedFilePath,
                   finalFileSize,
                   directAnswer,
                   error, outcome, remoteCalls, chunkVars>>

\* writeStream.on("error"), lines 293-299
WriteError ==
    /\ upload.writers > 0
    /\ Reject({"upload"}, [upload EXCEPT !.writers = @ - 1])
    /\ UNCHANGED <<whisper, requests, tempFilePath, input, disk, service>>

\* bb.on("error"), lines 318-321
BusboyError ==
    /\ upload.piped /\ upload.busboy = "parsing"
    /\ Reject({"upload"}, [upload EXCEPT !.busboy = "failed"])
    /\ UNCHANGED <<whisper, requests, tempFilePath, input, disk, service>>

\* bb.on("finish"), lines 323-331
BusboyFinish ==
    /\ upload.piped /\ upload.busboy = "parsing"
    /\ LET u == [upload EXCEPT !.busboy = "finished", !.busboyFinished = TRUE] IN
       IF ~u.fileFound
         THEN Reject(NoAudioFileError, u) /\ UNCHANGED <<pc, filePath, useDiarize>>
         ELSE \E diarizeParam \in DiarizeParams : TryResolve(u, tempFilePath, diarizeParam)
    /\ UNCHANGED <<whisper, requests, tempFilePath, fileSize, options, disk, convertedFilePath,
                   finalFileSize,
                   directAnswer,
                   error, outcome, remoteCalls, chunkVars>>

\* lines 359-372: transcribe has returned or thrown; text generation follows
\* if (prompt && prompt.trim())
TranscribeReturn ==
    /\ http.pc = "transcribe"
    /\ pc \in {"done", "failed"}
    /\ http' = IF pc = "failed" THEN [http EXCEPT !.pc = "catch", !.error = error]
               ELSE IF upload.prompt \notin {"undefined", " "} THEN [http EXCEPT !.pc = "generate"]
               ELSE [http EXCEPT !.pc = "cleanup"]
    /\ UNCHANGED <<whisper, requests, tempFilePath, upload, input, disk, service>>

\* a variation of GenerateReturn in which the error of the text generation
\* reaches the catch of the handler
GenerateReturnRethrow ==
    /\ http.pc = "generate"
    /\ \E ok \in BOOLEAN :
         http' = IF ok THEN [http EXCEPT !.pc = "cleanup", !.generated = TRUE,
                                         !.generation = "returned"]
                       ELSE [http EXCEPT !.pc = "catch", !.generation = "failed",
                                         !.error = {"remote", "500"}]
    /\ UNCHANGED <<whisper, requests, tempFilePath, upload, input, disk, service>>

\* lines 372-398: generateTextFromTranscript has returned a non-empty text
\* or thrown (lines 760-841 of the service; an empty completion throws); its
\* error is logged and the transcript alone is returned; generated stands
\* for the generatedText of lines 448-452
GenerateReturn ==
    /\ http.pc = "generate"
    /\ \E ok \in BOOLEAN :
         http' = [http EXCEPT !.pc = "cleanup", !.generated = ok,
                              !.generation = IF ok THEN "returned" ELSE "failed"]
    /\ UNCHANGED <<whisper, requests, tempFilePath, upload, input, disk, service>>

\* lines 417-454: delete the upload file, answer with the transcript
RespondOk ==
    /\ http.pc = "cleanup"
    /\ Unlink(Converted(tempFilePath))
    /\ http' = IF Escapes(UnlinkRejects(Converted(tempFilePath)))
                 THEN [http EXCEPT !.pc = "catch", !.error = UnlinkError]
                 ELSE [http EXCEPT !.pc = "responded", !.status = 200, !.body = "text",
                                   !.model = ModelName(useDiarize),
                                   !.diarize = useDiarize]
    /\ UNCHANGED <<whisper, requests, tempFilePath, upload, input, created, service>>

\* lines 455-494: the catch of the handler: delete the upload file, answer 500
RespondError ==
    /\ http.pc = "catch"
    /\ Unlink(Converted(tempFilePath))
    /\ http' = [http EXCEPT !.pc = "responded", !.status = 500,
                            !.body = IF Escapes(UnlinkRejects(Converted(tempFilePath)))
                                       THEN "unhandled" ELSE "error"]
    /\ UNCHANGED <<whisper, requests, tempFilePath, upload, input, created, service>>

\* the program has made its last read of temporary file p and has not yet
\* deleted it
LastUseDone(p) ==
    \/ p = tempFilePath /\ http.pc \in {"generate", "cleanup", "catch"}
    \/ p = convertedFilePath /\ pc = "normCall"
    \/ \E n \in DOMAIN task :
         \/ p = task[n].conv /\ task[n].st = "remote"
         \/ /\ n < Len(chunkFiles) /\ p = chunkFiles[n + 1]
            /\ task[n].st \in {"remote", "fulfilled", "rejected"}

\* the environment (a cleaner of the temporary directory) removes a
\* temporary file the program no longer reads, if no file has disappeared
\* without the program having noticed
TempCleaner ==
    /\ \A q \in created : q \in files \/ UnlinkCount(q) > 0
    /\ \E p \in files :
         /\ LastUseDone(p)
         /\ files' = files \ {p}
    /\ UNCHANGED <<outside, input, unlinks, created, service>>

\* lines 53-56 and 222-274 of src/server.ts: request r names its upload file, by
\* the first version whisper-${Date.now()}.${ext}, by the second
\* transcribe-${Date.now()}-${random}.${ext}
Arrive(r) ==
    /\ requests[r] = NoPath
    /\ \E now \in {1, 2}, rnd \in {"r1", "r2"}, filename \in Filenames :
         \E uniqueId \in { <<now>>, <<now, rnd>> } :
           requests' = [requests EXCEPT ![r] = TempFile(uniqueId, UploadExt(filename))]
    /\ UNCHANGED <<whisper, http, tempFilePath, upload, input, disk, service>>

\* every temporary file a request with upload file p may create: the upload,
\* its WAV, its chunks and their WAVs
TempFiles(p) ==
    {p, WavPath(p)}
    \cup { ChunkFile(p, n) : n \in 0 .. MaxPlanChunks - 1 }
    \cup { WavPath(ChunkFile(p, n)) : n \in 0 .. MaxPlanChunks - 1 }

---------------------------------------------------------------------------
(* Specifications *)

\* the whole request, with small chunk plans
Next ==
    \/ Route
    \/ DirectReturn
    \/ ConvertReturn
    \/ ReadFinal
    \/ NormReturn
    \/ Catch
    \/ Probe
    \/ SegmentStart
    \/ SegmentReturn
    \/ StartBatch
    \/ Cleanup
    \/ \E n \in DOMAIN task : TaskConvertReturn(n)
    \/ \E n \in DOMAIN task : TaskRead(n)
    \/ \E n \in DOMAIN task : TaskRemoteReturn(n)

Spec == Init /\ [][Next]_vars

\* the request up to the end of segmentation, with a wide range of sizes and
\* durations for the planner
InitPlan == InitWith(PlanSizes)

PlanProbe == ProbeFrom(PlanProbeOutputs, MaxPlanChunks)

NextPlan ==
    \/ Route
    \/ DirectReturn
    \/ ConvertReturn
    \/ ReadFinal
    \/ NormReturn
    \/ Catch
    \/ PlanProbe
    \/ SegmentStart
    \/ SegmentReturn

SpecPlan == InitPlan /\ [][NextPlan]_vars

\* transcribe of the nodejs-whisper version alone
InitFilter == InitWith({1000}) /\ FileExt(filePath) = "wav"

NextFilter ==
    \/ WhisperReturn
    \/ WhisperThrow

SpecFilter == InitFilter /\ [][NextFilter]_vars

\* the request through POST /transcribe, with small uploads and plans
InitHttp ==
    /\ InitRequest(HttpSizes, {NoPath}, "idle", [NoHttp EXCEPT !.pc = "request"])
    /\ options = NoOptions

\* the probe behind the handler; answers explored: a failure, 30 s, 60.1 s
HttpProbe ==
    ProbeFrom({ [k |-> "fail", v |-> 0], [k |-> "num", v |-> 300], [k |-> "num", v |-> 601] },
              MaxHttpChunks)

NextHttp ==
    \/ Request
    \/ FileField
    \/ Field
    \/ WriteFinish
    \/ WriteError
    \/ BusboyError
    \/ BusboyFinish
    \/ TranscribeReturn
    \/ GenerateReturn
    \/ RespondOk
    \/ RespondError
    \/ TempCleaner
    \/ Route
    \/ DirectReturn
    \/ ConvertReturn
    \/ ReadFinal
    \/ NormReturn
    \/ Catch
    \/ HttpProbe
    \/ SegmentStart
    \/ SegmentReturn
    \/ StartBatch
    \/ Cleanup
    \/ \E n \in DOMAIN task : TaskConvertReturn(n)
    \/ \E n \in DOMAIN task : TaskRead(n)
    \/ \E n \in DOMAIN task : TaskRemoteReturn(n)

SpecHttp == InitHttp /\ [][NextHttp]_vars

\* transcribeWithOptions called on a file, with each response format
InitOptions ==
    /\ InitRequest({1000}, [id : {<<0, 0>>}, chunk : {-1}, ext : Exts], "options", NoHttp)
    /\ options \in [response_format : ResponseFormats]

NextOptions ==
    \/ OptionsStart
    \/ OptionsConvertReturn
    \/ OptionsReturn
    \/ OptionsCatch

SpecOptions == InitOptions /\ [][NextOptions]_vars

\* a direct call of transcribe on a source path with or without a file
\* extension
ExtOrNone == {"mp3", ""}

InitAnyPath ==
    /\ InitRequest({1000, 30000}, [id : {<<0, 0>>}, chunk : {-1}, ext : ExtOrNone],
                   "start", NoHttp)
    /\ options = NoOptions

SpecAnyPath == InitAnyPath /\ [][Next]_vars

\* the file names of concurrent requests
NextNames == \E r \in DOMAIN requests : Arrive(r)

SpecNames == InitFilter /\ [][NextNames]_vars

TypeOK ==
    /\ pc \in {"idle", "start", "direct", "convert", "read", "normCall", "catch", "probe",
               "segment", "ffmpeg", "loop", "batch", "done", "failed",
               "options", "optionsConvert", "optionsCall", "optionsCatch"}
    /\ outcome.kind \in {"none", "ok", "error"}
    /\ Len(chunkFiles) <= numChunks
    /\ \A n \in DOMAIN task :
         task[n].st \in {"idle", "convert", "read", "remote", "fulfilled", "rejected"}

---------------------------------------------------------------------------
(* Properties *)

\* the request went through transcribeInChunks and a plan was computed
Planned == duration.k = "num" /\ duration.v > 0

\* the texts of the tasks, in chunk index order
TaskTexts == [k \in 1 .. numChunks |-> task[k - 1].text]

\* the first chunk index of the batch after the batch of chunk n
NextBatchStart(n) == ((n \div maxConcurrent) + 1) * maxConcurrent

\* C1: transcribe ends by returning the complete assembled transcript (every
\* chunk transcribed) or by raising one error; once the transcription of a
\* chunk has failed the request fails, no later batch is started and no
\* transcript built from the chunks that succeeded is returned.
C1_CompleteOrError ==
    /\ pc = "done" => outcome.kind = "ok"
    /\ pc = "failed" => outcome.kind = "error" /\ outcome.text = <<>>
    /\ outcome.kind # "none" => pc \in {"done", "failed"}
    /\ (outcome.kind = "ok" /\ Planned) =>
          /\ \A n \in DOMAIN task : task[n].st = "fulfilled"
          /\ Len(results) = numChunks
          /\ outcome.text = CombinedText(TaskTexts)
    /\ \A n \in DOMAIN task :
          task[n].st = "rejected" =>
             /\ pc \in {"catch", "failed"}
             /\ outcome.kind # "ok"
             /\ \A m \in DOMAIN task : m >= NextBatchStart(n) => task[m].st = "idle"

\* C1 witness: the request failed on a rejected chunk while a chunk of the
\* same run had been transcribed and chunks of a later batch were never started
C1_Witness ==
    /\ pc = "failed"
    /\ \E n, m, l \in DOMAIN task :
         /\ task[n].st = "rejected"
         /\ task[m].st = "fulfilled" /\ task[m].text # <<>>
         /\ task[l].st = "idle"

\* C2: the executor returns exactly one result per chunk, in chunk index
\* order, whatever the order in which the tasks of a batch complete; the
\* assembled transcript depends on the texts by chunk index only.
C2_ResultsInIndexOrder ==
    /\ Len(results) <= Len(chunkFiles)
    /\ \A k \in 1 .. Len(results) :
         task[k - 1].st = "fulfilled" /\ results[k] = task[k - 1].text
    /\ (outcome.kind = "ok" /\ Planned) =>
          /\ Len(results) = numChunks
          /\ Len(results) = Len(chunkFiles)
          /\ outcome.text = CombinedText(TaskTexts)

\* C2 witness: chunk 1 completed before chunk 0, their texts differ, and the
\* request returned
C2_Witness ==
    /\ pc = "done"
    /\ Len(completed) >= 2 /\ completed[1] = 1 /\ completed[2] = 0
    /\ results[1] # <<>> /\ results[2] # <<>> /\ results[1] # results[2]

\* C3: at every moment the number of outstanding remote transcription calls
\* of the request is at most maxConcurrent, which is 2.
C3_BoundedConcurrency == Outstanding <= maxConcurrent /\ maxConcurrent = 2

\* C3 witness: both calls of a later batch are outstanding at the same time
C3_Witness ==
    /\ Outstanding = maxConcurrent
    /\ i >= maxConcurrent
    /\ numChunks > maxConcurrent

\* C4: when the request has ended, on the success path and on every failure
\* path, every chunk file that segmentation created has been deleted exactly
\* once.
C4_ChunkFilesDeletedOnce ==
    pc \in {"done", "failed"} =>
       \A k \in 1 .. Len(chunkFiles) :
          chunkFiles[k] \in created =>
             UnlinkCount(chunkFiles[k]) = 1 /\ chunkFiles[k] \notin files

\* C5: for every duration D > 0, size S and ceiling C the planned chunk
\* duration is within [60, 300] seconds, also when the unclamped value is 0
\* or exceeds 300.
C5_ChunkSecondsClamped ==
    Planned => 60 <= actualChunkDuration /\ actualChunkDuration <= 300

\* C5 witness: a plan whose unclamped chunk duration is 0
C5_Witness ==
    /\ Planned
    /\ chunkSource.size > 0
    /\ optimizedChunkDuration(chunkSource.size, duration.v) = 0
    /\ actualChunkDuration = 60

\* the ffmpeg cuts issued so far are contiguous and start at 0
Contiguous ==
    /\ \A k \in 1 .. Len(cuts) : cuts[k].t > 0
    /\ cuts # <<>> => cuts[1].ss = 0
    /\ \A k \in 1 .. Len(cuts) - 1 : cuts[k + 1].ss = cuts[k].ss + cuts[k].t

\* C6: for every known duration D > 0 the plan has numChunks >= 1, the chunk
\* indices are 0 .. numChunks-1 in order, start(0) = 0, start(i+1) = start(i) +
\* span(i), and the spans cover [0, D) with no gap and no overlap.
C6_PlanCoversDuration ==
    Planned =>
       /\ numChunks >= 1
       /\ Len(cuts) <= numChunks
       /\ Len(chunkFiles) = Len(cuts)
       /\ \A k \in 1 .. Len(chunkFiles) : chunkFiles[k].chunk = k - 1
       /\ Contiguous
       /\ \A k \in 1 .. Len(cuts) : cuts[k].ss * ProbeResolution < duration.v
       /\ pc \in {"loop", "batch", "done"} =>
             /\ Len(cuts) = numChunks
             /\ (cuts[numChunks].ss + cuts[numChunks].t) * ProbeResolution >= duration.v

\* C6 witness: a plan of several chunks, all extracted, whose last chunk is
\* shorter than the chunk duration
C6_Witness ==
    /\ Planned
    /\ pc = "loop"
    /\ numChunks >= 3
    /\ (cuts[numChunks].ss + cuts[numChunks].t) * ProbeResolution > duration.v

\* getAudioDuration has answered
Probed == duration.k # "none"

C8_LargeFileAlwaysChunked ==
    fileSize > MAX_FILE_SIZE_BYTES =>
       /\ pc \notin {"direct", "convert", "read", "normCall"}
       /\ convertedFilePath = NoPath
       /\ WavPath(filePath) \notin created
       /\ pc # "start" => chunkSource.path = filePath
       /\ \A k \in 1 .. Len(remoteCalls) :
            remoteCalls[k].path # filePath /\ remoteCalls[k].path.chunk >= 0

\* C8 witness: a large file in a supported format was transcribed
C8_Witness ==
    /\ fileSize > MAX_FILE_SIZE_BYTES
    /\ FileExt(filePath) \in supportedFormats
    /\ pc = "done"
    /\ remoteCalls # <<>>

\* C9: for a file within the ceiling and with a supported extension, wav
\* included, the first remote call submits the original bytes, and after a
\* content-specific failure of that call the file is normalized by the
\* transcoder and the normalized file is the one submitted next.
C9_FallbackNormalizes ==
    (fileSize <= MAX_FILE_SIZE_BYTES /\ FileExt(filePath) \in supportedFormats) =>
       /\ remoteCalls # <<>> =>
            remoteCalls[1].path = filePath /\ remoteCalls[1].size = fileSize
       /\ pc = "read" =>
            convertedFilePath # NoPath /\ convertedFilePath \in created
       /\ pc = "normCall" =>
            /\ convertedFilePath # NoPath
            /\ remoteCalls[Len(remoteCalls)].path = convertedFilePath

\* C10: when a file within the ceiling is normalized and the normalized file
\* exceeds the ceiling, the normalized file is never submitted and the
\* chunked pipeline runs on the original file.
C10_OversizeNormalizedChunksOriginal ==
    fileSize <= MAX_FILE_SIZE_BYTES =>
       /\ \A k \in 1 .. Len(remoteCalls) :
            remoteCalls[k].path.chunk = -1 => remoteCalls[k].size <= MAX_FILE_SIZE_BYTES
       /\ chunkSource.path # NoPath =>
            /\ chunkSource = [path |-> filePath, size |-> fileSize]
            /\ convertedFilePath # NoPath
       /\ \A k \in 1 .. Len(chunkFiles) : chunkFiles[k] = ChunkFile(filePath, k - 1)

\* C10 witness: a small file whose normalized form was too large has been
\* transcribed in chunks
C10_Witness ==
    /\ fileSize <= MAX_FILE_SIZE_BYTES
    /\ pc = "done"
    /\ Planned
    /\ \E k \in 1 .. Len(remoteCalls) : remoteCalls[k].path.chunk >= 0


\* the segmenter ran: transcribeInChunks was entered or an extraction was made
SegmenterInvoked == chunkSource.path # NoPath \/ cuts # <<>> \/ chunkFiles # <<>>

\* C11 (as stated): a file whose original size is at most 25MB never invokes
\* the segmenter, whatever the remote calls and the conversion return.
C11_SmallFileNeverSegments ==
    fileSize <= MAX_FILE_SIZE_BYTES => ~SegmenterInvoked

\* C11 (amended): a file whose original size is at most 25MB invokes the
\* segmenter only after it was normalized and the normalized file was found
\* to exceed 25MB; a wav file, a file whose direct submission succeeded and
\* a file whose normalized form is within the ceiling never invoke it.
C11_SmallFileSegmentsOnlyWhenNormalizedOversize ==
    (fileSize <= MAX_FILE_SIZE_BYTES /\ SegmenterInvoked) =>
        /\ FileExt(filePath) # "wav"
        /\ convertedFilePath = WavPath(filePath)
        /\ convertedFilePath \in created
        /\ finalFileSize > MAX_FILE_SIZE_BYTES
        /\ \A k \in 1 .. Len(remoteCalls) : remoteCalls[k].path # convertedFilePath

C11_Witness ==
    /\ fileSize <= MAX_FILE_SIZE_BYTES
    /\ cuts # <<>>
    /\ finalFileSize > MAX_FILE_SIZE_BYTES


\* the character c stands n times in a row somewhere in t
HasRun(t, n) ==
    \E s \in 1 .. Len(t) - n + 1 : \A j \in s .. s + n - 1 : t[j] = t[s]

\* some substring of t of length L is repeated n times in a row: t has a
\* window of n * L characters with period L
HasPeriod(t, L, n) ==
    \E s \in 1 .. Len(t) - n * L + 1 : \A j \in s .. s + (n - 1) * L - 1 : t[j] = t[j + L]

\* C12: the hallucination filter discards a text (the empty text is returned)
\* exactly when a single character repeats 31 or more times in a row or a
\* substring of length 1 to 5 repeats 16 or more times in a row; any other
\* text is returned unchanged; the filter never raises an error.
C12_FilterDiscardsExactlyRepetitions ==
    (whisper.pc # "nodewhisper" /\ whisper.output # <<>>) =>
       /\ whisper.pc = "returned"
       /\ whisper.text # <<>> =>
            IF HasRun(whisper.text, 31) \/ \E L \in 1 .. 5 : HasPeriod(whisper.text, L, 16)
              THEN whisper.returned = <<>>
              ELSE whisper.returned = whisper.text
       /\ whisper.text = Repeat(<<"a">>, 35) => whisper.returned = <<>>
       /\ whisper.text = Repeat(<<"a", " ">>, 17) \o <<"a">> => whisper.returned = <<>>

\* C12 witness: a text with exactly 16 repetitions of a 5-character pattern
\* was discarded
C12_Witness ==
    /\ whisper.pc = "returned"
    /\ whisper.returned = <<>>
    /\ Len(whisper.text) = 16 * 5 + 1
    /\ ~HasRun(whisper.text, 5)


\* C13: in the chunked pipeline every successful chunk text passes through
\* the hallucination filter before assembly: a hallucinated chunk text
\* contributes the empty text, so no text the filter would discard is the
\* result of a chunk or reaches the assembled transcript.
C13_ChunkTextsFiltered ==
    /\ \A n \in DOMAIN task :
         task[n].st = "fulfilled" => ~isLikelyHallucination(task[n].text)
    /\ \A k \in 1 .. Len(results) : ~isLikelyHallucination(results[k])
    /\ (outcome.kind = "ok" /\ Planned) => ~isLikelyHallucination(outcome.text)


\* the texts folded from the first to the last: an empty text adds nothing,
\* a non-empty one is appended after one space, or alone if it is the first
RECURSIVE FoldTexts(_)
FoldTexts(rs) ==
    IF rs = <<>> THEN <<>>
    ELSE LET rest == FoldTexts(SubSeq(rs, 1, Len(rs) - 1))
             last == rs[Len(rs)]
         IN IF last = <<>> THEN rest
            ELSE IF rest = <<>> THEN last
            ELSE rest \o <<" ">> \o last

\* C14: the assembled transcript is the non-empty chunk texts in index order
\* joined with exactly one space; chunks with an empty text contribute
\* nothing, not even a separator.  Assembly performs no remote call (every
\* chunk was submitted once, nothing else) and cannot fail (once every chunk
\* has its text the request does not end in an error).
C14_AssemblyJoinsNonEmptyTexts ==
    /\ (pc = "done" /\ Planned) =>
          /\ outcome.kind = "ok"
          /\ outcome.text = FoldTexts(TaskTexts)
          /\ Cardinality({ k \in 1 .. Len(remoteCalls) : remoteCalls[k].path.chunk >= 0 })
               = numChunks
    /\ (Planned /\ numChunks > 0 /\ Len(results) = numChunks) => pc \in {"loop", "done"}

\* C14 witness: three chunks, the middle one silent, were assembled
C14_Witness ==
    /\ pc = "done" /\ Planned
    /\ numChunks = 3
    /\ TaskTexts[1] # <<>> /\ TaskTexts[2] = <<>> /\ TaskTexts[3] # <<>>
    /\ Len(outcome.text) = Len(TaskTexts[1]) + 1 + Len(TaskTexts[3])


\* C15: deleting a temporary file that is already gone does not raise and
\* does not turn a successful request into a failed one: no error of unlink
\* reaches transcribe, its caller or the response, every failed request has
\* another cause, a request whose transcription succeeded is answered 200,
\* and safeDeleteFile raises on no path.
C15_MissingFileCleanupNeverFails ==
    /\ "unlink" \notin error /\ "unlink" \notin http.error
    /\ outcome.class # "unlink" /\ http.body # "unhandled"
    /\ outcome.kind = "error" => error \cap {"remote", "tool", "probe", "size"} # {}
    /\ (http.pc = "responded" /\ pc = "done") => http.status = 200
    /\ \A p \in created : ~safeDeleteFile(p).raised

\* C15 witness: the request was answered 200 although the deletion of the
\* upload file and the deletion of another temporary file had failed
C15_Witness ==
    /\ http.pc = "responded" /\ http.status = 200
    /\ UnlinkFailed(tempFilePath) > 0
    /\ \E p \in created : p # tempFilePath /\ UnlinkFailed(p) > 0


\* C20: POST /transcribe answers 200 on success, 400 on a bad request, a
\* multipart request without an audio file included, and 500 on a
\* server-side failure.
C20_StatusCodes ==
    http.pc = "responded" =>
       http.status = IF http.body = "contentType" \/ "no audio file" \in http.error THEN 400
                     ELSE IF pc = "done" THEN 200
                     ELSE 500


\* C16: no two concurrent requests share a temporary file: their upload
\* files, normalized WAV files and chunk files are all different paths.
C16_RequestsShareNoTempFile ==
    \A r1, r2 \in DOMAIN requests :
       (r1 # r2 /\ requests[r1] # NoPath /\ requests[r2] # NoPath) =>
          TempFiles(requests[r1]) \cap TempFiles(requests[r2]) = {}


\* C17: a remote failure keeps its class up to the caller: an authentication
\* failure, a rate-limit failure and a content failure each give their own
\* user-facing message, whichever path made the failing remote call.
C17_RemoteFailureKeepsClass ==
    (outcome.kind = "error" /\ "remote" \in error) =>
       outcome.class = IF "401" \in error THEN "auth"
                       ELSE IF "429" \in error THEN "rate"
                       ELSE IF "400" \in error THEN "format"
                       ELSE "failed"

\* C17 witness: a chunk was refused for the rate limit and the request
\* failed with the rate-limit message
C17_Witness ==
    /\ pc = "failed" /\ Planned
    /\ "remote" \in error /\ "429" \in error
    /\ outcome.class = "rate"

\* C18: no remote failure is retried: within one request the same payload is
\* submitted at most once, and after an authentication or rate-limit
\* failure no further remote call is issued.
C18_NoRetry ==
    /\ [](\A j, k \in 1 .. Len(remoteCalls) :
            j # k => remoteCalls[j].path # remoteCalls[k].path)
    /\ [][(/\ pc \in {"catch", "failed"}
           /\ "remote" \in error
           /\ error \cap {"401", "429"} # {})
          => remoteCalls' = remoteCalls]_vars

\* C19: a transcoder failure during whole-file normalization aborts the
\* request without any further remote call, and a transcoder failure, in
\* normalization or in segmentation, reaches the caller as a conversion
\* failure, not as an authentication, rate-limit or remote-format error.
C19_TranscoderFailureIsConversionFailure ==
    /\ ("tool" \in error /\ chunkSource.path = NoPath) =>
          /\ pc \in {"catch", "failed"}
          /\ \A k \in 1 .. Len(remoteCalls) : k = 1 /\ remoteCalls[k].path = filePath
    /\ (outcome.kind = "error" /\ "tool" \in error) =>
          outcome.class \notin {"auth", "rate", "format"}

\* C21: when the query parameter diarize is true, 1 or yes, every remote
\* transcription call of the request (direct, normalized, each chunk) uses the
\* model gpt-4o-transcribe-diarize and the response reports that model with
\* diarize true; for any other value or no value every call uses
\* gpt-4o-mini-transcribe and the response reports it with diarize false.
C21_DiarizeSelectsModel ==
    LET on == http.diarizeParam \in {"true", "1", "yes"}
        model == IF on THEN "gpt-4o-transcribe-diarize" ELSE "gpt-4o-mini-transcribe"
    IN /\ \A k \in 1 .. Len(remoteCalls) : remoteCalls[k].model = model
       /\ (http.pc = "responded" /\ http.status = 200) =>
             http.model = model /\ http.diarize = on

\* C21 witness: a request with diarize=1 was answered 200 after a direct
\* call and calls for chunks
C21_Witness ==
    /\ http.pc = "responded" /\ http.status = 200
    /\ http.diarizeParam = "1"
    /\ \E j, k \in 1 .. Len(remoteCalls) :
         remoteCalls[j].path = filePath /\ remoteCalls[k].path.chunk >= 0

\* C22: a chunked file is cut into chunks of 5 minutes each (a 60-minute file
\* into 12) and up to 4 chunks are transcribed simultaneously: every batch
\* starts 4 tasks, or all the chunks that remain if they are fewer.
C22_FiveMinuteChunksFourAtATime ==
    Planned =>
       /\ actualChunkDuration = 300
       /\ numChunks = Ceil(duration.v, 300 * ProbeResolution)
       /\ pc = "batch" =>
            Cardinality({ n \in DOMAIN task : n >= i /\ task[n].st # "idle" })
               = Min(4, numChunks - i)

\* C23: files longer than 10 minutes are always processed in chunks and files
\* shorter than 10 minutes are never chunked: a file that is cut into chunks
\* lasts 10 minutes or more, and a file of known duration above 10 minutes is
\* not submitted as a whole.
C23_ChunkedIffLongerThanTenMinutes ==
    /\ cuts # <<>> => duration.v >= 600 * ProbeResolution
    /\ (Planned /\ duration.v > 600 * ProbeResolution) =>
          \A k \in 1 .. Len(remoteCalls) : remoteCalls[k].path.chunk >= 0

\* C24: for every D > 0, S and C the plan equals the reference computation:
\* safeBudget = 0.8 * C, chunkSeconds = clamp(floor(floor(safeBudget / (S / D))
\* / 6), 60, 300) and numChunks = ceil(D / chunkSeconds); for S = 100MB,
\* D = 3600 s, C = 25MB the safe budget is 20MB and numChunks =
\* ceil(3600 / chunkSeconds).  The floors and the ceiling are stated by the
\* inequalities that define them, with the budget of 20MB in KiB.
C24_PlannerMatchesReference ==
    Planned =>
       LET S == chunkSource.size
           d == duration.v
           budget == 20 * 1024
           cs == actualChunkDuration
       IN /\ MAX_FILE_SIZE_BYTES = 25 * 1024
          /\ S = 0 => cs = 300
          /\ S > 0 =>
               /\ cs = 300 <=> budget * d >= 6 * 300 * S * ProbeResolution
               /\ cs = 60 <=> budget * d < (6 * 60 + 6) * S * ProbeResolution
               /\ (60 < cs /\ cs < 300) =>
                     /\ 6 * cs * S * ProbeResolution <= budget * d
                     /\ budget * d < (6 * cs + 6) * S * ProbeResolution
          /\ (numChunks - 1) * cs * ProbeResolution < d
          /\ d <= numChunks * cs * ProbeResolution
          /\ (S = 100 * 1024 /\ d = 3600 * ProbeResolution) =>
                numChunks * cs >= 3600 /\ (numChunks - 1) * cs < 3600

\* C24 witness: the plan of the file of 100MB and 3600 s, whose chunk
\* duration lies strictly between the two limits
C24_Witness ==
    /\ Planned
    /\ chunkSource.size = 100 * 1024
    /\ duration.v = 3600 * ProbeResolution
    /\ actualChunkDuration = 120 /\ numChunks = 30

\* C25: batches are serialized: no transcription task of batch b+1 is started
\* before every task of batch b has completed, even when a task of batch b
\* finished early and a concurrency slot is idle.
C25_BatchesSerialized ==
    \A m \in DOMAIN task :
       task[m].st # "idle" =>
          \A n \in DOMAIN task :
             n \div maxConcurrent < m \div maxConcurrent => task[n].st = "fulfilled"

\* C25 witness: in a batch one task has finished and the other still waits
\* for the remote endpoint, while the chunks of the next batch wait
C25_Witness ==
    LET BatchOf(b) == { n \in DOMAIN task : n \div maxConcurrent = b } IN
    /\ pc = "batch"
    /\ \E b \in 0 .. 1 :
         /\ \E n, m \in BatchOf(b) : task[n].st = "fulfilled" /\ task[m].st = "remote"
         /\ BatchOf(b + 1) # {}
         /\ \A l \in BatchOf(b + 1) : task[l].st = "idle"

\* C26: the executor waits until every task of the current batch has settled,
\* also when one of them fails: when the request returns or raises, no chunk
\* transcription task of it (conversion or remote call) is still in flight.
C26_NoTaskInFlightAtEnd ==
    outcome.kind # "none" =>
       \A n \in DOMAIN task : task[n].st \notin {"convert", "read", "remote"}

\* the chunk files whose extraction has completed
Extracted == { k \in 1 .. Len(chunkFiles) : chunkFiles[k] \in created }

\* C27: segmentation is strictly sequential and precedes transcription: at
\* most one extraction runs at any time, the extraction of chunk i+1 starts
\* only after the extraction of chunk i has completed, and no chunk
\* transcription (conversion or remote call) starts before all numChunks
\* segments have been extracted.
C27_SegmentationSequentialAndFirst ==
    /\ Cardinality((1 .. Len(chunkFiles)) \ Extracted) <= 1
    /\ \A k \in 1 .. Len(chunkFiles) :
         /\ chunkFiles[k].chunk = k - 1
         /\ k < Len(chunkFiles) => k \in Extracted
    /\ pc = "ffmpeg" <=> (chunkFiles # <<>> /\ Len(chunkFiles) \notin Extracted
                          /\ error = NoError)
    /\ (\E n \in DOMAIN task : task[n].st # "idle") =>
          /\ Len(chunkFiles) = numChunks
          /\ Extracted = 1 .. numChunks
    /\ \A k \in 1 .. Len(remoteCalls) :
         remoteCalls[k].path.chunk >= 0 => Extracted = 1 .. numChunks

\* C27 witness: the first task of a plan of three chunks has been started
\* after the three extractions
C27_Witness ==
    /\ numChunks = 3
    /\ Extracted = 1 .. 3
    /\ task[0].st # "idle"
    /\ task[2].st = "idle"

\* the extraction of chunk file k has ended without writing the file
ExtractionFailed(k) ==
    /\ k \in 1 .. Len(chunkFiles)
    /\ chunkFiles[k] \notin created
    /\ ~(k = Len(chunkFiles) /\ pc = "ffmpeg")

\* C28 (as stated): when the extraction of a segment fails the whole request
\* fails: no later segment is extracted, the failed extraction is not
\* retried, and no remote transcription call is made for that request.
C28_ExtractionFailureNoRemoteCall ==
    \A k \in 1 .. Len(chunkFiles) :
       ExtractionFailed(k) =>
          /\ pc \in {"catch", "failed"} /\ outcome.kind # "ok"
          /\ k = Len(chunkFiles) /\ Len(cuts) = Len(chunkFiles)
          /\ remoteCalls = <<>>

\* C28 (amended): when the extraction of a segment fails the whole request
\* fails: no later segment is extracted, the failed extraction is not
\* retried, no chunk transcription is started and no remote call is made for
\* a chunk; the only remote call the request can have made is the direct
\* submission of the original file, before it was normalized and handed to
\* the chunked pipeline.
C28_ExtractionFailureAborts ==
    \A k \in 1 .. Len(chunkFiles) :
       ExtractionFailed(k) =>
          /\ pc \in {"catch", "failed"} /\ outcome.kind # "ok"
          /\ k = Len(chunkFiles) /\ Len(cuts) = Len(chunkFiles)
          /\ \A n \in DOMAIN task : task[n].st = "idle"
          /\ Len(remoteCalls) <= 1
          /\ \A j \in 1 .. Len(remoteCalls) :
               /\ remoteCalls[j].path = filePath
               /\ fileSize <= MAX_FILE_SIZE_BYTES
               /\ finalFileSize > MAX_FILE_SIZE_BYTES

\* C28 witness: the second of three extractions failed and the request
\* failed, after the direct submission of the original file
C28_Witness ==
    /\ pc = "failed"
    /\ numChunks >= 3
    /\ ExtractionFailed(2)
    /\ Len(remoteCalls) = 1

\* C29: for a file within the ceiling and with a supported extension, when
\* the direct submission succeeds the request makes exactly one remote call
\* and never invokes the transcoder or the segmenter; when it fails with a
\* failure that is not content-specific the request fails without any
\* conversion and without a second remote call.
C29_DirectPathSingleCall ==
    LET single == /\ Len(remoteCalls) = 1 /\ remoteCalls[1].path = filePath
                  /\ created = {} /\ convertedFilePath = NoPath
                  /\ ~SegmenterInvoked
    IN /\ directAnswer # NoError =>
            fileSize <= MAX_FILE_SIZE_BYTES /\ FileExt(filePath) \in supportedFormats
       /\ "text" \in directAnswer => pc = "done" /\ outcome.kind = "ok" /\ single
       /\ ("remote" \in directAnswer /\ "400" \notin directAnswer) =>
            pc \in {"catch", "failed"} /\ outcome.kind # "ok" /\ single

\* C29 witness: the direct submission was refused for the rate limit and the
\* request has failed
C29_Witness ==
    /\ "429" \in directAnswer
    /\ pc = "failed"
    /\ outcome.class = "rate"

\* C30: no remote transcription call is ever issued with a payload larger
\* than the ceiling of 25MB: on the direct path, the normalized path and the
\* chunked path, a payload above the ceiling leads to chunking or to an
\* error instead of a remote call.
C30_NoPayloadAboveCeiling ==
    /\ \A k \in 1 .. Len(remoteCalls) : remoteCalls[k].size <= 25 * 1024
    /\ (fileSize > 25 * 1024 /\ pc # "start") => chunkSource.path = filePath
    /\ finalFileSize > 25 * 1024 => chunkSource.path = filePath
    /\ "size" \in error =>
          /\ pc \in {"catch", "failed"}
          /\ \E n \in DOMAIN task : task[n].st = "rejected"

\* C30 witness: the original file was submitted, its WAV was over the
\* ceiling and the file was chunked, a chunk was submitted and the WAV of
\* another chunk was over the ceiling
C30_Witness ==
    /\ pc = "failed" /\ "size" \in error
    /\ finalFileSize > 25 * 1024
    /\ \E j, k \in 1 .. Len(remoteCalls) :
         remoteCalls[j].path = filePath /\ remoteCalls[k].path.chunk >= 0

\* C31: every normalized WAV file that transcribe, transcribeSingle or
\* transcribeWithOptions creates is deleted before that operation returns or
\* raises, on every exit path: success, fallback to chunking, error, and
\* every response_format.
C31_NormalizedFilesDeleted ==
    /\ ((outcome.kind # "none" \/ chunkSource.path # NoPath)
           /\ WavPath(filePath) \in created) => WavPath(filePath) \notin files
    /\ \A n \in DOMAIN task :
          (task[n].st \in {"fulfilled", "rejected"} /\ task[n].conv # NoPath) =>
             task[n].conv \notin files

\* C32: the upload promise resolves at most once, and only after an audio
\* file field was seen, its write stream has finished and multipart parsing
\* has finished, in whichever order the two finish events arrive;
\* transcription is never started before both have happened; when both have
\* happened the promise does resolve; and when parsing finishes without an
\* audio file field the promise rejects.
C32_UploadResolvesWhenComplete ==
    LET complete == /\ upload.fileFound /\ upload.fileWriteFinished
                    /\ upload.writers = 0 /\ upload.busboyFinished
    IN /\ upload.resolved <=> upload.settled = "resolved"
       /\ upload.settled = "resolved" => complete
       /\ http.pc \in {"transcribe", "generate", "cleanup"} => complete
       /\ pc # "idle" => complete
       /\ complete => upload.settled # "pending"
       /\ (upload.busboyFinished /\ ~upload.fileFound) => upload.settled = "rejected"

\* C33: once the handler has created the upload temp file it attempts to
\* delete that file exactly once before responding, on the success path and
\* on every error path, and a failure of that deletion never changes the
\* status or the body of the response.
C33_UploadFileDeletedOnce ==
    http.pc = "responded" =>
       \A filename \in Filenames :
          LET tempFile == TempFile(http.uniqueId, UploadExt(filename)) IN
          tempFile \in created =>
             /\ UnlinkCount(tempFile) = 1
             /\ http.status = (IF pc = "done" THEN 200 ELSE 500)
             /\ http.body = (IF pc = "done" THEN "text" ELSE "error")

\* C34: when a prompt is provided and text generation fails, the request
\* still succeeds: the handler answers 200 with the transcript and without
\* generatedText and textGenerationModel; and when no prompt, or a blank
\* prompt, is provided, text generation is never called.
C34_GenerationFailureKeepsTranscript ==
    /\ http.generation = "failed" =>
          /\ http.pc \in {"cleanup", "responded"}
          /\ ~http.generated
          /\ http.pc = "responded" => (http.status = 200 /\ http.body = "text")
    /\ (upload.settled = "resolved" /\ upload.prompt \in {"undefined", " "}) =>
          (http.pc # "generate" /\ http.generation = "not called")

\* a request with a prompt whose text generation failed has been answered
C34_Witness ==
    /\ http.pc = "responded" /\ http.generation = "failed"
    /\ upload.prompt = "p" /\ http.status = 200

\* C35: within a request the chunk file paths are pairwise distinct and each
\* differs from the source file path, for every source path, with or
\* without a file extension, so that a segment extraction never overwrites
\* the source file or another chunk.
C35_ChunkPathsDistinct ==
    /\ \A k \in DOMAIN chunkFiles : chunkFiles[k] # chunkSource.path
    /\ \A k, m \in DOMAIN chunkFiles : k # m => chunkFiles[k] # chunkFiles[m]

\* C36: for every chunk plan the estimated normalized size of one chunk,
\* chunkSeconds * (S / D) * 6, does not exceed the safe budget 0.8 * C, also
\* when the computed chunk duration is raised to the 60-second minimum.
\* With D in ticks and the sizes in KiB: chunkSeconds * S * ProbeResolution
\* * 6 <= 20MB * D.
C36_ChunkEstimateWithinBudget ==
    Planned =>
       actualChunkDuration * chunkSource.size * ProbeResolution * 6
          <= 20 * 1024 * duration.v


===========================================================================
